---- MODULE Spec2Model ----
(***************************************************************************)
(* A model of tensorx: the sparse random-noise builders of                 *)
(* tensorx/random.py and the layer constructors of tensorx/layers.py.      *)
(*                                                                         *)
(* The functions of random.py are pure up to the random choices of the     *)
(* framework's sampler and shuffle; every such choice is a \E in the       *)
(* action that models the call.  A density is the rational                 *)
(* density/DensityDen; with DensityDen a power of two the float product    *)
(* density * dense_shape[1] of the source is exact, so int() is floor.     *)
(***************************************************************************)
EXTENDS Integers, Sequences, FiniteSets, TLC

MaxN == 2          \* largest dense_shape[0] (batch size)
MaxM == 3          \* largest dense_shape[1]
DensityDen == 4    \* densities are 0/DensityDen .. DensityDen/DensityDen
MaxK == 2          \* longest mask_values list

VARIABLES call, result, shuffled, layers, last, graph

vars == <<call, result, shuffled, layers, last, graph>>
randomVars == <<call, result, shuffled>>
layerVars == <<layers, last, graph>>

----------------------------------------------------------------------------
(* Framework primitives used by random.py *)

Injective(s) == \A i, j \in DOMAIN s : s[i] = s[j] => i = j

\* int(density * dense_shape[1])
num_of(density, m) == (density * m) \div DensityDen

\* The UniformCandidateSampler op declares num_sampled >= 1 and
\* range_max >= 1; building it with a smaller attribute raises.
sampler_rejects(range_max, num_sampled) == num_sampled < 1 \/ range_max < 1

\* The sampler drawing with repetition whatever unique says
_sample_repeats(range_max, num_sampled, unique) ==
    [1..num_sampled -> 0..(range_max - 1)]

\* One draw of the candidate sampler: num_sampled values of 0..range_max-1,
\* without repetition when unique.
_sample(range_max, num_sampled, unique) ==
    {s \in [1..num_sampled -> 0..(range_max - 1)] : unique => Injective(s)}

\* sample with a batch size: map_fn over range(batch_size) of fn_sample,
\* which calls the sampler with its default unique=True.
sample(range_max, num_sampled, batch_size, unique) ==
    [1..batch_size -> _sample(range_max, num_sampled, TRUE)]

\* enum_row: [[1,2],[2,5]] -> [[0,1],[0,2],[1,2],[1,5]]
enum_row(samples, num) ==
    [t \in 1..(Len(samples) * num) |->
        <<(t - 1) \div num, samples[((t - 1) \div num) + 1][((t - 1) % num) + 1]>>]

\* array_ops.fill([rows, cols], v)
fill(rows, cols, v) == [r \in 1..rows |-> [c \in 1..cols |-> v]]

\* array_ops.concat([a, b], axis=-1) of two matrices with the same rows
concat2(a, b) == [r \in 1..Len(a) |-> a[r] \o b[r]]

RECURSIVE concat(_, _)
\* array_ops.concat(tensors, axis=-1) of a non-empty list of matrices
concat(tensors, rows) ==
    IF tensors = <<>> THEN [r \in 1..rows |-> <<>>]
    ELSE concat2(Head(tensors), concat(Tail(tensors), rows))

RECURSIVE reshape_flat(_)
\* array_ops.reshape(values, [-1])
reshape_flat(matrix) ==
    IF matrix = <<>> THEN <<>> ELSE Head(matrix) \o reshape_flat(Tail(matrix))

\* random_ops.random_normal(shape=[n]): n draws, named by their position
random_normal(n) == [i \in 1..n |-> i]

\* SparseTensor(indices, values, dense_shape)
SparseTensor(indices, values, dense_shape) ==
    [kind |-> "SparseTensor", indices |-> indices, values |-> values,
     dense_shape |-> dense_shape]

IndexLess(a, b) == a[1] < b[1] \/ (a[1] = b[1] /\ a[2] < b[2])

\* sparse_ops.sparse_reorder: entries in row-major order of their index
\* (entries with the same index keep their order)
sparse_reorder(sp) ==
    LET indices == sp.indices \o <<>>
        values == sp.values \o <<>>
        n == Len(indices)
        rank == [i \in 1..n |-> Cardinality({j \in 1..n :
                    \/ IndexLess(indices[j], indices[i])
                    \/ (indices[j] = indices[i] /\ j <= i)})] \o <<>>
        at == [k \in 1..n |-> CHOOSE i \in 1..n : rank[i] = k] \o <<>>
    IN  SparseTensor([k \in 1..n |-> indices[at[k]]],
                     [k \in 1..Len(values) |->
                         IF k <= n /\ at[k] <= Len(values)
                         THEN values[at[k]] ELSE values[k]],
                     sp.dense_shape)

Pending == [kind |-> "pending", indices |-> <<>>, values |-> <<>>, dense_shape |-> <<>>]
NoneResult == [kind |-> "None", indices |-> <<>>, values |-> <<>>, dense_shape |-> <<>>]
Raised(e) == [kind |-> e, indices |-> <<>>, values |-> <<>>, dense_shape |-> <<>>]

----------------------------------------------------------------------------
(* tensorx/random.py *)

Max(a, b) == IF a >= b THEN a ELSE b

\* sparse_random_normal: num_noise = max(int(density * dense_shape[1]), 1)
normal_num_noise(density, m) == Max(num_of(density, m), 1)

\* sparse_random_normal, given the draw flat_indices of its call of sample
sparse_random_normal(dense_shape, density, flat_indices) ==
    LET num_noise == normal_num_noise(density, dense_shape[2])
        indices == enum_row(flat_indices, num_noise)
        values == random_normal(dense_shape[1] * num_noise)
    IN  sparse_reorder(SparseTensor(indices, values, dense_shape))

\* salt_pepper_noise: num_noise = int(density * dense_shape[1]), 0 when below 2
salt_num_noise(density, m) == IF num_of(density, m) < 2 THEN 0 ELSE num_of(density, m)

num_salt(num_noise) == num_noise \div 2

\* The pepper taking what the salt leaves of num_noise
num_pepper_rest(num_noise) == num_noise - num_salt(num_noise)

num_pepper(num_noise) == num_salt(num_noise)

\* the symmetrical num_noise = num_salt + num_pepper that is sampled
salt_num_sampled(density, m) ==
    num_salt(salt_num_noise(density, m)) + num_pepper(salt_num_noise(density, m))

\* salt_pepper_noise past its early return, given the draw samples
salt_pepper_noise(dense_shape, density, max_value, min_value, samples) ==
    LET num_noise == salt_num_noise(density, dense_shape[2])
        batch_size == dense_shape[1]
        indices == enum_row(samples, salt_num_sampled(density, dense_shape[2]))
        salt_tensor == fill(batch_size, num_salt(num_noise), max_value)
        pepper_tensor == fill(batch_size, num_pepper(num_noise), min_value)
        values == reshape_flat(concat(<<salt_tensor, pepper_tensor>>, batch_size))
    IN  sparse_reorder(SparseTensor(indices, values, dense_shape))

\* random_ops.random_shuffle of a list: any permutation of it
random_shuffle(list) ==
    {[i \in 1..Len(list) |-> list[p[i]]] :
        p \in {q \in [1..Len(list) -> 1..Len(list)] : Injective(q)}}

\* Every mask value, the last included, given floor(total / num_values)
num_vi_corrupted_even(i, num_values, total_corrupted) == total_corrupted \div num_values

\* sparse_random_mask: entries of a row given to the i-th (1-based) mask value
num_vi_corrupted(i, num_values, total_corrupted) ==
    IF i = num_values
    THEN total_corrupted - ((total_corrupted \div num_values) * (num_values - 1))
    ELSE total_corrupted \div num_values

\* The values of sparse_random_mask for an already shuffled mask_values.
mask_value_tensor(dense_shape, total_corrupted, mask) ==
    LET num_values == Len(mask)
        value_tensors == [i \in 1..num_values |->
            fill(dense_shape[1], num_vi_corrupted(i, num_values, total_corrupted), mask[i])]
    IN  reshape_flat(concat(value_tensors, dense_shape[1]))

\* sparse_random_mask, given the shuffled mask_values and the draw samples
sparse_random_mask(dense_shape, density, mask, samples) ==
    LET total_corrupted == num_of(density, dense_shape[2])
        indices == enum_row(samples, total_corrupted)
        values == mask_value_tensor(dense_shape, total_corrupted, mask)
    IN  sparse_reorder(SparseTensor(indices, values, dense_shape))

----------------------------------------------------------------------------
(* Inputs of the calls *)

DenseShapes == (1..MaxN) \X (1..MaxM)
Densities == 0..DensityDen
\* (max_value, min_value): the defaults of salt_pepper_noise and of SaltPepperNoise
SaltPepperValues == {<<1, -1>>, <<1, 0>>}
MaskLists == {[i \in 1..k |-> i] : k \in 1..MaxK}

Call(fn, dense_shape, density, max_value, min_value, mask_values) ==
    [fn |-> fn, dense_shape |-> dense_shape, density |-> density,
     max_value |-> max_value, min_value |-> min_value, mask_values |-> mask_values]

Calls ==
    {Call("sparse_random_normal", d, p, 1, -1, <<1>>) : d \in DenseShapes, p \in Densities}
    \cup {Call("salt_pepper_noise", x[1], x[2], x[3][1], x[3][2], <<1>>) :
             x \in DenseShapes \X Densities \X SaltPepperValues}
    \cup {Call("sparse_random_mask", x[1], x[2], 1, -1, x[3]) :
             x \in DenseShapes \X Densities \X MaskLists}

CallSparseRandomNormal ==
    /\ call.fn = "sparse_random_normal"
    /\ result = Pending
    /\ LET n == call.dense_shape[1]
           m == call.dense_shape[2]
           num_noise == normal_num_noise(call.density, m)
       IN  IF sampler_rejects(m, num_noise)
           THEN result' = Raised("ValueError")
           ELSE \E flat_indices \in sample(m, num_noise, n, TRUE) :
                    result' = sparse_random_normal(call.dense_shape, call.density,
                                                   flat_indices)
    /\ UNCHANGED <<call, shuffled, layerVars>>

CallSaltPepperNoise ==
    /\ call.fn = "salt_pepper_noise"
    /\ result = Pending
    /\ LET n == call.dense_shape[1]
           m == call.dense_shape[2]
       IN  IF salt_num_noise(call.density, m) = 0
           THEN result' = NoneResult
           ELSE IF sampler_rejects(m, salt_num_sampled(call.density, m))
           THEN result' = Raised("ValueError")
           ELSE \E samples \in sample(m, salt_num_sampled(call.density, m), n, TRUE) :
                    result' = salt_pepper_noise(call.dense_shape, call.density,
                                                call.max_value, call.min_value, samples)
    /\ UNCHANGED <<call, shuffled, layerVars>>

CallSparseRandomMask ==
    /\ call.fn = "sparse_random_mask"
    /\ result = Pending
    /\ LET n == call.dense_shape[1]
           m == call.dense_shape[2]
           total_corrupted == num_of(call.density, m)
       IN  \E mask \in random_shuffle(call.mask_values) :
               /\ shuffled' = mask
               /\ IF sampler_rejects(m, total_corrupted)
                  THEN result' = Raised("ValueError")
                  ELSE \E samples \in sample(m, total_corrupted, n, TRUE) :
                           result' = sparse_random_mask(call.dense_shape, call.density,
                                                        mask, samples)
    /\ UNCHANGED <<call, layerVars>>

InitRandom ==
    /\ call \in Calls
    /\ result = Pending
    /\ shuffled = <<>>

----------------------------------------------------------------------------
(* tensorx/layers.py *)

MaxUnits == 2      \* largest n_units of an Input
MaxBatch == 1      \* largest batch_size of an Input
MaxLayers == 2     \* layers kept by the caller

\* A dimension is None or an int; an optional int argument likewise.
NoneDim == <<>>
Dim(n) == <<n>>
\* shape=None / dense_shape=None
NoneShape == <<>>

\* A tensor handle; the y of Layer.__init__ is None.
Tensor(op, id) == [op |-> op, id |-> id]
NoneY == Tensor("None", 0)

\* An object and the attributes it has; reading any other raises AttributeError.
Object(cls, attrs, n_units, name, dtype, shape, dense_sape, dense_shape, y) ==
    [cls |-> cls, attrs |-> attrs, n_units |-> n_units, name |-> name, dtype |-> dtype,
     shape |-> shape, dense_sape |-> dense_sape, dense_shape |-> dense_shape, y |-> y,
     sp_indices |-> NoneY, sp_values |-> NoneY]

hasattr(obj, attr) == attr \in obj.attrs

NoObject == Object("none", {}, 0, "", "float32", NoneShape, NoneShape, NoneShape, NoneY)

\* The outcome of a constructor: the exception it raised, or the new object.
Raise(e) == [raised |-> e, obj |-> NoObject, ops |-> 0]
Return(obj, ops) == [raised |-> "none", obj |-> obj, ops |-> ops]

LayerAttrs == {"n_units", "name", "dtype", "shape", "dense_sape", "y"}

\* Layer.__init__: stores dense_sape, never dense_shape, and leaves y None.
Layer(cls, n_units, shape, dense_shape, dtype, name) ==
    LET self_shape == IF shape = NoneShape THEN <<NoneDim, Dim(n_units)>> ELSE shape
        self(dense_sape) == Object(cls, LayerAttrs, n_units, name, dtype, self_shape,
                                   dense_sape, NoneShape, NoneY)
    IN  IF dense_shape = NoneShape THEN Return(self(self_shape), 0)
        ELSE IF dense_shape[2][1] < n_units THEN Raise("Exception")
        ELSE IF dense_shape[1] # self_shape[1] THEN Raise("Exception")
        ELSE Return(self(dense_shape), 0)

\* Input.__init__; n_active is NoneDim or Dim(k); id names the placeholder op.
Input(n_units, n_active, batch_size, dtype, id) ==
    IF n_active # NoneDim /\ n_active[1] >= n_units THEN Raise("ValueError")
    ELSE IF n_active # NoneDim /\ dtype # "int64" THEN Raise("TypeError")
    ELSE LET dense_shape == <<batch_size, Dim(n_units)>>
             shape == IF n_active # NoneDim THEN <<batch_size, n_active>>
                      ELSE <<batch_size, Dim(n_units)>>
             super == Layer("Input", n_units, shape, dense_shape, dtype, "input")
         IN  IF super.raised # "none" THEN super
             ELSE Return([super.obj EXCEPT !.y = Tensor("placeholder", id)], 1)

\* SparseInput.__init__: dense_shape is a tensor (or [None, n_units] fails to
\* convert), and Layer.__init__ tests dense_shape[1] < n_units in an if.
SparseInput(n_units, n_active, values, batch_size) == Raise("TypeError")

\* Linear.__init__: reads layer.dense_shape, then passes dtype where
\* Layer.__init__ takes dense_shape, which it subscripts.
Linear(layer, n_units, bias) ==
    IF ~hasattr(layer, "dense_shape") THEN Raise("AttributeError")
    ELSE Raise("TypeError")

\* tensorx.transform.to_sparse: the handles of the indices and of the values
to_sparse(y, id) == <<Tensor("to_sparse_indices", id), Tensor("to_sparse_values", id)>>

\* ToSparse.__init__
ToSparse(layer, id) ==
    IF ~hasattr(layer, "dense_shape") THEN Raise("AttributeError")
    ELSE LET super == Layer("ToSparse", layer.n_units, layer.shape, layer.dense_shape,
                            layer.dtype, layer.name \o "_sparse")
         IN  IF super.raised # "none" THEN super
             ELSE Return([super.obj EXCEPT
                            !.attrs = @ \cup {"sp_indices", "sp_values"},
                            !.sp_indices = to_sparse(layer.y, id)[1],
                            !.sp_values = to_sparse(layer.y, id)[2]], 1)

\* GaussianNoise.__init__; with noise it adds the noise to self.y, still None.
GaussianNoise(layer, noise_amount) ==
    IF ~hasattr(layer, "dense_shape") THEN Raise("AttributeError")
    ELSE LET super == Layer("GaussianNoise", layer.n_units, layer.shape, layer.dense_shape,
                            layer.dtype, layer.name \o "_noise")
         IN  IF super.raised # "none" THEN super
             ELSE IF noise_amount = 0 THEN Return([super.obj EXCEPT !.y = layer.y], 0)
             ELSE Raise("ValueError")

\* SaltPepperNoise.__init__; getattr(layer, "sp_values", default=None) passes
\* a keyword to getattr, which takes none.
SaltPepperNoise(layer, noise_amount) ==
    IF ~hasattr(layer, "dense_shape") THEN Raise("AttributeError")
    ELSE LET super == Layer("SaltPepperNoise", layer.n_units, layer.shape,
                            layer.dense_shape, layer.dtype, layer.name \o "_noise")
         IN  IF super.raised # "none" THEN super
             ELSE IF noise_amount = 0 THEN Return([super.obj EXCEPT !.y = layer.y], 0)
             ELSE IF hasattr(layer, "sp_indices") THEN Raise("TypeError")
             ELSE Return(super.obj, 0)

\* Activation.__init__ with the default fn=identity
Activation(layer, id) ==
    IF ~hasattr(layer, "dense_shape") THEN Raise("AttributeError")
    ELSE LET super == Layer("Activation", layer.n_units, layer.shape, layer.dense_shape,
                            layer.dtype, layer.name \o "_activation")
         IN  IF super.raised # "none" THEN super
             ELSE Return([super.obj EXCEPT !.y = Tensor("identity", id)], 1)

\* Bias.__init__: passes the tuple (layer.dtype, "<name>_bias") as dense_shape,
\* and Layer.__init__ compares its second item, a str, with n_units.
Bias(layer) == Raise("TypeError")

\* Merge.__init__; layers is a list, weights is None (<<>>) or <<list length>>.
\* No object has the attribute output, and merge_fn gets the layers themselves.
Merge(list, weights) ==
    IF Len(list) < 2 THEN Raise("Exception")
    ELSE IF weights # <<>> /\ weights[1] # Len(list) THEN Raise("Exception")
    ELSE IF ~hasattr(list[1], "dense_shape") THEN Raise("AttributeError")
    ELSE LET super == Layer("Merge", list[1].n_units, list[1].shape, list[1].dense_shape,
                            list[1].dtype, "merge")
         IN  IF super.raised # "none" THEN super
             ELSE IF weights # <<>> THEN Raise("AttributeError")
             ELSE Raise("ValueError")

----------------------------------------------------------------------------
(* Calls of the constructors *)

\* Objects a caller can pass as a layer without building them with this
\* module: they carry the attributes the constructors read, dense_shape
\* included.  The second also has sp_indices and sp_values; the third has a
\* dense_shape narrower than its n_units.
DuckAttrs == {"n_units", "name", "dtype", "shape", "dense_shape", "y"}
CallerObjects ==
    {Object("object", DuckAttrs, 2, "x", "float32", <<NoneDim, Dim(2)>>, NoneShape,
            <<NoneDim, Dim(2)>>, Tensor("external", 0)),
     [Object("object", DuckAttrs \cup {"sp_indices", "sp_values"}, 2, "x", "float32",
             <<NoneDim, Dim(2)>>, NoneShape, <<NoneDim, Dim(2)>>, Tensor("external", 0))
        EXCEPT !.sp_indices = Tensor("external_indices", 0),
               !.sp_values = Tensor("external_values", 0)],
     Object("object", DuckAttrs, 2, "x", "float32", <<NoneDim, Dim(2)>>, NoneShape,
            <<NoneDim, Dim(1)>>, Tensor("external", 0))}

\* What a call can be given as its layer argument
LayerArgs == {layers[i] : i \in DOMAIN layers} \cup CallerObjects

OptionalInts == {NoneDim} \cup {Dim(k) : k \in 1..(MaxUnits + 1)}
BatchSizes == {NoneDim} \cup {Dim(k) : k \in 1..MaxBatch}
DTypes == {"float32", "int64"}
\* noise_amount in tenths: 0.0 and the default 0.1
NoiseAmounts == {0, 1}

LastCall(cls, layer, n_units, n_active, batch_size, dtype, noise_amount, out) ==
    [cls |-> cls, layer |-> layer, n_units |-> n_units, n_active |-> n_active,
     batch_size |-> batch_size, dtype |-> dtype, noise_amount |-> noise_amount,
     raised |-> out.raised, obj |-> out.obj]

\* The caller keeps the object a constructor returns; a raise leaves nothing.
Finish(cls, layer, n_units, n_active, batch_size, dtype, noise_amount, out) ==
    /\ last' = LastCall(cls, layer, n_units, n_active, batch_size, dtype, noise_amount, out)
    /\ layers' = IF out.raised = "none" THEN Append(layers, out.obj) ELSE layers
    /\ graph' = graph + out.ops
    /\ UNCHANGED randomVars

NewInput ==
    /\ Len(layers) < MaxLayers
    /\ \E n_units \in 1..MaxUnits, n_active \in OptionalInts, batch_size \in BatchSizes,
          dtype \in DTypes :
           Finish("Input", NoObject, n_units, n_active, batch_size, dtype, 0,
                  Input(n_units, n_active, batch_size, dtype, graph + 1))

NewSparseInput ==
    /\ Len(layers) < MaxLayers
    /\ \E n_units \in 1..MaxUnits, n_active \in 1..MaxUnits, values \in BOOLEAN,
          batch_size \in BatchSizes :
           Finish("SparseInput", NoObject, n_units, Dim(n_active), batch_size, "float32", 0,
                  SparseInput(n_units, n_active, values, batch_size))

NewLinear ==
    /\ Len(layers) < MaxLayers
    /\ \E layer \in LayerArgs, n_units \in 1..MaxUnits, bias \in BOOLEAN :
           Finish("Linear", layer, n_units, NoneDim, NoneDim, "float32", 0,
                  Linear(layer, n_units, bias))

NewToSparse ==
    /\ Len(layers) < MaxLayers
    /\ \E layer \in LayerArgs :
           Finish("ToSparse", layer, 0, NoneDim, NoneDim, "float32", 0,
                  ToSparse(layer, graph + 1))

NewGaussianNoise ==
    /\ Len(layers) < MaxLayers
    /\ \E layer \in LayerArgs, noise_amount \in NoiseAmounts :
           Finish("GaussianNoise", layer, 0, NoneDim, NoneDim, "float32", noise_amount,
                  GaussianNoise(layer, noise_amount))

NewSaltPepperNoise ==
    /\ Len(layers) < MaxLayers
    /\ \E layer \in LayerArgs, noise_amount \in NoiseAmounts :
           Finish("SaltPepperNoise", layer, 0, NoneDim, NoneDim, "float32", noise_amount,
                  SaltPepperNoise(layer, noise_amount))

NewActivation ==
    /\ Len(layers) < MaxLayers
    /\ \E layer \in LayerArgs :
           Finish("Activation", layer, 0, NoneDim, NoneDim, "float32", 0,
                  Activation(layer, graph + 1))

NewBias ==
    /\ Len(layers) < MaxLayers
    /\ \E layer \in LayerArgs :
           Finish("Bias", layer, 0, NoneDim, NoneDim, "float32", 0, Bias(layer))

NewMerge ==
    /\ Len(layers) < MaxLayers
    /\ \E first \in LayerArgs, second \in LayerArgs, len \in 1..2,
          weights \in {<<>>, <<1>>, <<2>>} :
           Finish("Merge", first, 0, NoneDim, NoneDim, "float32", 0,
                  Merge(SubSeq(<<first, second>>, 1, len), weights))

----------------------------------------------------------------------------
(* Specifications *)

InitLayers ==
    /\ layers = <<>>
    /\ last = LastCall("none", NoObject, 0, NoneDim, NoneDim, "float32", 0, Raise("none"))
    /\ graph = 0

Init == InitRandom /\ InitLayers

NextRandom == CallSparseRandomNormal \/ CallSaltPepperNoise \/ CallSparseRandomMask

\* The calls of random.py, each applied to the inputs Init draws
SpecRandom == Init /\ [][NextRandom]_vars

NextLayers ==
    \/ NewInput
    \/ NewSparseInput
    \/ NewLinear
    \/ NewToSparse
    \/ NewGaussianNoise
    \/ NewSaltPepperNoise
    \/ NewActivation
    \/ NewBias
    \/ NewMerge

\* A caller building layers; the random.py call stays as drawn
InitOneCall ==
    /\ call = Call("sparse_random_normal", <<1, 1>>, 0, 1, -1, <<1>>)
    /\ result = Pending
    /\ shuffled = <<>>
    /\ InitLayers

SpecLayers == InitOneCall /\ [][NextLayers]_vars

----------------------------------------------------------------------------
(* Properties of random.py *)

Done == result # Pending
Returned == result.kind = "SparseTensor"
N == call.dense_shape[1]
M == call.dense_shape[2]

\* entries of row r of the result
RowEntries(r) == {k \in DOMAIN result.indices : result.indices[k][1] = r}
\* entries of row r of the result that store v
RowCount(r, v) ==
    Cardinality({k \in RowEntries(r) : k \in DOMAIN result.values /\ result.values[k] = v})

\* C1: every tensor salt_pepper_noise returns stores only max_value and
\* min_value, and each row holds as many max_value entries as min_value
\* entries, floor(int(density * M) / 2) of each.
C1_SaltPepperSymmetric ==
    (call.fn = "salt_pepper_noise" /\ Returned) =>
        /\ \A k \in DOMAIN result.values :
               result.values[k] \in {call.max_value, call.min_value}
        /\ \A r \in 0..(N - 1) :
               /\ RowCount(r, call.max_value) = RowCount(r, call.min_value)
               /\ RowCount(r, call.max_value) = ((call.density * M) \div DensityDen) \div 2

C1_Witness ==
    /\ call.fn = "salt_pepper_noise"
    /\ Returned
    /\ N = 2
    /\ RowCount(0, call.max_value) = 1
    /\ RowCount(1, call.min_value) = 1

\* entries per row of whatever salt_pepper_noise gave back (None holds none)
C2_Corrupted(r) == IF Returned THEN Cardinality(RowEntries(r)) ELSE 0

\* C2: salt_pepper_noise corrupts exactly int(density * M) entries in each
\* row, so that density 1.0 corrupts every index of every row.
C2_SaltPepperExactAmount ==
    (call.fn = "salt_pepper_noise" /\ Done) =>
        /\ result.kind \in {"SparseTensor", "None"}
        /\ \A r \in 0..(N - 1) :
               C2_Corrupted(r) = (call.density * M) \div DensityDen

\* C3: in every returned tensor each index is a pair (row, col) inside the
\* dense shape, and no pair occurs twice.
C3_IndicesUniqueInRange ==
    Returned =>
        /\ \A k \in DOMAIN result.indices :
               /\ Len(result.indices[k]) = 2
               /\ result.indices[k][1] \in 0..(N - 1)
               /\ result.indices[k][2] \in 0..(M - 1)
        /\ \A j, k \in DOMAIN result.indices :
               result.indices[j] = result.indices[k] => j = k

C3_Witness ==
    /\ Returned
    /\ N = 2
    /\ Cardinality(RowEntries(0)) >= 2
    /\ Cardinality(RowEntries(1)) >= 2

\* C6: sparse_random_normal returns exactly N * int(density * M) entries,
\* none at all when int(density * M) is 0.
C6_NormalExactEntries ==
    (call.fn = "sparse_random_normal" /\ Done) =>
        /\ Returned
        /\ Len(result.indices) = N * ((call.density * M) \div DensityDen)
        /\ \A r \in 0..(N - 1) :
               Cardinality(RowEntries(r)) = (call.density * M) \div DensityDen

\* C7: sparse_random_mask returns T = int(density * M) entries per row, the
\* first k-1 shuffled mask values on floor(T / k) entries each and the last
\* on the remaining T - (k-1) * floor(T / k); density 0 gives an empty tensor.
C7_MaskProportional ==
    (call.fn = "sparse_random_mask" /\ Done) =>
        LET k == Len(call.mask_values)
            T == (call.density * M) \div DensityDen
        IN  /\ Returned
            /\ Len(shuffled) = k
            /\ \A r \in 0..(N - 1) :
                   /\ Cardinality(RowEntries(r)) = T
                   /\ \A i \in 1..(k - 1) : RowCount(r, shuffled[i]) = T \div k
                   /\ RowCount(r, shuffled[k]) = T - ((k - 1) * (T \div k))

\* C10: every returned tensor has as many values as indices, both N times
\* one per-row count, and carries the dense shape [N, M] of the call.
C10_WellFormedTriple ==
    Returned =>
        /\ Len(result.values) = Len(result.indices)
        /\ \E c \in 0..M :
               /\ Len(result.indices) = N * c
               /\ \A r \in 0..(N - 1) : Cardinality(RowEntries(r)) = c
        /\ result.dense_shape = <<N, M>>

C10_Witness ==
    /\ call.fn = "sparse_random_mask"
    /\ Returned
    /\ N = 2
    /\ Len(call.mask_values) = 2
    /\ Len(result.values) = 6

----------------------------------------------------------------------------
(* Properties of layers.py *)

\* C4: SaltPepperNoise with noise_amount # 0.0 on a layer that has
\* sp_indices completes without an error and leaves y None.
C4_SparseStubLeavesNone ==
    (/\ last.cls = "SaltPepperNoise"
     /\ last.noise_amount # 0
     /\ hasattr(last.layer, "sp_indices")) =>
        /\ last.raised = "none"
        /\ last.obj.y = NoneY

\* C5: every layer a constructor returned has its tensor y set (not None),
\* together with its n_units, shape and name.
C5_EveryLayerHasTensor ==
    \A i \in DOMAIN layers :
        /\ {"y", "n_units", "shape", "name"} \subseteq layers[i].attrs
        /\ layers[i].y # NoneY

\* C8: Input(n_units, n_active) with n_active <= n_units and dtype int64 does
\* not raise and has shape [batch_size, n_active]; it raises ValueError only
\* when n_active exceeds n_units, and TypeError when dtype is not int64.
C8_InputAcceptsUpToNUnits ==
    last.cls = "Input" =>
        /\ (/\ last.n_active # NoneDim
            /\ last.n_active[1] <= last.n_units
            /\ last.dtype = "int64") =>
               /\ last.raised = "none"
               /\ last.obj.shape = <<last.batch_size, last.n_active>>
        /\ last.raised = "ValueError" =>
               (last.n_active # NoneDim /\ last.n_active[1] > last.n_units)
        /\ (/\ last.n_active # NoneDim
            /\ last.n_active[1] <= last.n_units
            /\ last.dtype # "int64") => last.raised = "TypeError"

\* C9: GaussianNoise(L, 0.0) and SaltPepperNoise(L, 0.0) on a constructed
\* Input L succeed with y the handle L.y and the n_units, shape and dtype of
\* L, and L stays as it was.
C9_ZeroNoiseKeepsTensor ==
    (/\ last.cls \in {"GaussianNoise", "SaltPepperNoise"}
     /\ last.noise_amount = 0
     /\ last.layer.cls = "Input") =>
        /\ last.raised = "none"
        /\ last.obj.y = last.layer.y
        /\ last.obj.n_units = last.layer.n_units
        /\ last.obj.shape = last.layer.shape
        /\ last.obj.dtype = last.layer.dtype
        /\ \E i \in DOMAIN layers : layers[i] = last.layer

====
